---- MODULE Spec2Model ----
(***************************************************************************)
(* Model of the engine-analysis subsystem of ChessProfi                    *)
(* (src/analysis-module.ts): the StockfishService engine pool, the         *)
(* analyzePosition / analyzeGame callers that lease engines from it, and   *)
(* the per-ply move-quality computation of analyzeGame, the analysis      *)
(* queue with the jobs GamesService submits (src/unnamed/part_002), the    *)
(* parsing of engine output and of game texts, and handleGameAnalysis      *)
(* with the rows it reads and writes.                                      *)
(*                                                                         *)
(* JavaScript runs each callback to completion, so one action is one turn  *)
(* of the event loop: the synchronous code between two awaits.             *)
(***************************************************************************)
EXTENDS Integers, Sequences, FiniteSets, TLC

\* ------------------------------------------------------------- constants

\* private readonly POOL_SIZE = 4
POOL_SIZE == 4

\* bounds of the model: how many engine processes the environment kills,
\* how many plies a game has, how many lines one chunk of engine output holds
MaxKills == 1
MaxPlies == 2
MaxChunkLines == 2
\* the largest centipawn loss categorizeMove is called with on its own
MaxLoss == 400
\* how many jobs are submitted to the analysis queue
MaxJobs == 3
\* how many searches are awaited in a row on one engine
MaxSearches == 3
\* how many depth iterations the engine reports in one `go depth` search
MaxDepth == 2
\* how many times onModuleDestroy is called
MaxDestroys == 2
\* in how many `data` events the output of one search arrives
MaxChunks == 3
\* how many plies the games have whose text is parsed
MaxPgnPlies == 7
\* how many plies the stored games have
MaxStoredPlies == 5

\* setoption name MultiPV value 3
MultiPV == 3

\* the two @Process handlers of AnalysisProcessor, one job at a time each
NumWorkers == 2
Workers == 1 .. NumWorkers
\* jobs in submission order
Jobs == 1 .. MaxJobs
NoJob == 0

Engines == 1 .. POOL_SIZE
\* more concurrent callers than the pool has engines
Callers == 1 .. (POOL_SIZE + 1)
NoEngine == 0

VARIABLES
    proc,        \* engine -> "none" | "starting" | "alive" | "dead" (the child process)
    engines,     \* this.engines: every engine createEngine registered
    enginePool,  \* this.enginePool: the stack of available engines
    initPc,      \* onModuleInit: "spawn" | "wait" | "done"
    pc,          \* caller -> where its call stands
    held,        \* caller -> the engine its local `engine` refers to, or NoEngine
    exited,      \* the call that returned or raised in the last turn, if any
    inflight,    \* engine -> searches it was told to run (`go`) and has not
                 \* answered with a bestmove line that was received
    \* one analyzeGame call on its leased engine
    gpc,         \* "idle" | "start" | "wait_best" | "wait_after" | "done"
    moves,       \* const moves = this.parsePGN(pgn)
    i,           \* the loop index
    position,    \* the moves after `startpos moves` in the position command
    evaluation,  \* waitForAnalysis: let evaluation
    bestMoveAnalysis,    \* what the search before the move resolved with
    searchEvals, \* the evaluations waitForAnalysis resolved with, in order
    totalCentipawnLoss,
    moveCount,
    analysis,    \* the GameAnalysis under construction
    \* one call of categorizeMove
    loss,        \* its argument centipawnLoss
    category,    \* what it returned, "none" before the call
    \* the `analysis` queue and its processor
    jobs,        \* job -> its state in the queue and its options
    worker,      \* worker -> the job its handler is running, or NoJob
    runs,        \* job -> how many times a handler was started for it
    taken,       \* the job dequeued in the last turn and the jobs left waiting
    \* a sequence of searches awaited with waitForAnalysis on one engine
    listening,   \* a dataHandler of waitForAnalysis is attached to stdout
    searching,   \* the engine received `go` and has not printed bestmove yet
    emitted,     \* how many bestmove lines the engine printed
    lastScore,   \* the latest score line the engine printed, if any
    curScored,   \* the engine printed a score line in the current search
    searchLog,   \* per resolved search: had it a score line, and lastScore
                 \* before the chunk that resolved it
    \* one analyzePosition call on its leased engine
    ppc,         \* "idle" | "start" | "wait" | "done"
    fenSide,     \* the side to move in the position `fen`: "w" | "b"
    lines,       \* const lines: the output lines collected by dataHandler
    posAnalysis, \* the PositionAnalysis under construction
    \* the life cycle of the module and of its calls
    destroyed,   \* how many calls of onModuleDestroy returned
    cancelRequested, \* caller -> somebody asked to cancel its call in flight
    \* one waitForAnalysis call and the bytes its engine prints
    stream,      \* the text the engine prints for the search, as characters
    fedTo,       \* how many characters of it reached dataHandler
    chunksFed,   \* in how many `data` events
    handler,     \* evaluation and bestMove of waitForAnalysis, and whether
                 \* it resolved
    \* one parsePGN call
    played,      \* the moves that were played in the game, as texts
    pgn,         \* the game text `pgn` parsePGN is called with
    parsed,      \* what parsePGN returned
    \* handleGameAnalysis for one job, and the rows of its game
    hpc,         \* "idle", "call", "update", "returned" or "raised"
    gameRow,     \* the Game row of the job's gameId, if there is one
    analysisRows,  \* how many Analysis rows the game has
    moveRows,    \* moveNumber -> the Move row of the game with that number
    result,      \* analysis.moves of the attempt
    updated,     \* the moveNumbers the attempt has updated, in order
    attempt,     \* the run of the job the handler was started for
    error        \* the message of the error the attempt raised

poolVars == <<proc, engines, enginePool, initPc, pc, held, exited, inflight>>
gameVars == <<gpc, moves, i, position, evaluation, bestMoveAnalysis, searchEvals,
              totalCentipawnLoss, moveCount, analysis>>
classVars == <<loss, category>>
queueVars == <<jobs, worker, runs, taken>>
searchVars == <<listening, searching, emitted, lastScore, curScored, searchLog>>
posVars == <<ppc, fenSide, lines, posAnalysis>>
protocolVars == <<searchVars, posVars>>
lifeVars == <<destroyed, cancelRequested>>
chunkVars == <<stream, fedTo, chunksFed, handler>>
pgnVars == <<played, pgn, parsed>>
storeVars == <<hpc, gameRow, analysisRows, moveRows, result, updated, attempt,
               error>>
\* the calls that are modelled on their own
callVars == <<lifeVars, chunkVars, pgnVars, storeVars>>
otherVars == <<callVars, classVars, queueVars, protocolVars>>
vars == <<poolVars, gameVars, otherVars>>

\* no call ended in the last turn
NoExit == [kind |-> "none", how |-> "none", engine |-> NoEngine]

\* ------------------------------------------------------------- helpers

Range(s) == {s[k] : k \in 1 .. Len(s)}
Push(s, e) == Append(s, e)
\* Array.prototype.pop: the last element
Top(s) == s[Len(s)]
Pop(s) == SubSeq(s, 1, Len(s) - 1)
Dead == {e \in Engines : proc[e] = "dead"}

\* exact fractions n/d, d > 0, in lowest terms (JavaScript numbers that
\* are quotients of integers)
RECURSIVE Gcd(_, _)
Gcd(a, b) == IF b = 0 THEN a ELSE Gcd(b, a % b)
Abs(n) == IF n < 0 THEN -n ELSE n
Frac(n, d) ==
    LET g == Gcd(Abs(n), d) IN [num |-> n \div g, den |-> d \div g]
Zero == Frac(0, 1)
FracLe(a, b) == a.num * b.den <= b.num * a.den
FracMax(a, b) == IF FracLe(a, b) THEN b ELSE a
FracMin(a, b) == IF FracLe(a, b) THEN a ELSE b
FracSub(a, b) == Frac(a.num * b.den - b.num * a.den, a.den * b.den)
Max(a, b) == IF a >= b THEN a ELSE b

\* no search result yet
NoResult == [evaluation |-> 0, bestMove |-> ""]

\* ------------------------------------------------------------- pool

\* releaseEngine: this.enginePool.push(engine)
releaseEngine(pool, e) == Push(pool, e)

\* ------------------------------------------------------------- startup

PoolInit ==
    /\ proc = [e \in Engines |-> "none"]
    /\ engines = <<>>
    /\ enginePool = <<>>
    /\ initPc = "spawn"
    /\ pc = [c \in Callers |-> "idle"]
    /\ held = [c \in Callers |-> NoEngine]
    /\ exited = NoExit
    /\ inflight = [e \in Engines |-> 0]

\* const analysis: GameAnalysis = { moves: [], ..., gameQuality: 0 }
NewGameAnalysis ==
    [moves |-> <<>>, blunders |-> <<>>, mistakes |-> <<>>, inaccuracies |-> <<>>,
     averageCentipawnLoss |-> Zero, gameQuality |-> Zero]

\* the locals of analyzeGame before its loop, for the move list ms
GameLocals(at, ms) ==
    /\ gpc = at
    /\ moves = ms
    /\ i = 0
    /\ position = <<>>
    /\ evaluation = 0
    /\ bestMoveAnalysis = NoResult
    /\ searchEvals = <<>>
    /\ totalCentipawnLoss = 0
    /\ moveCount = 0
    /\ analysis = NewGameAnalysis

\* categorizeMove is not being called on its own
ClassIdle == loss = 0 /\ category = "none"

\* a job that was not submitted
NoJobYet == [state |-> "none", kind |-> "none", priority |-> 0,
             attempts |-> 0, attemptsMade |-> 0]
NoneTaken == [job |-> NoJob, left |-> {}]

\* the empty queue
QueueIdle ==
    /\ jobs = [j \in Jobs |-> NoJobYet]
    /\ worker = [w \in Workers |-> NoJob]
    /\ runs = [j \in Jobs |-> 0]
    /\ taken = NoneTaken

NoScore == [any |-> FALSE, cp |-> 0]

\* no search was started
SearchIdle ==
    /\ listening = FALSE
    /\ searching = FALSE
    /\ emitted = 0
    /\ lastScore = NoScore
    /\ curScored = FALSE
    /\ searchLog = <<>>

\* const analysis: PositionAnalysis = { evaluation: 0, bestMoves: [], depth: 0 }
NewPositionAnalysis == [evaluation |-> Zero, bestMoves |-> <<>>, depth |-> 0]

\* the locals of analyzePosition before any output, for a fen with `side`
\* to move
PositionLocals(at, side) ==
    /\ ppc = at
    /\ fenSide = side
    /\ lines = <<>>
    /\ posAnalysis = NewPositionAnalysis

ProtocolIdle == SearchIdle /\ PositionLocals("idle", "w")

\* the module was not destroyed and nobody asked to cancel a call
LifeIdle ==
    /\ destroyed = 0
    /\ cancelRequested = [c \in Callers |-> FALSE]

\* let evaluation = 0; let bestMove = ''
NewHandler == [evaluation |-> 0, bestMove |-> <<>>, resolved |-> FALSE]

\* waitForAnalysis called for an engine that prints the text
ChunkLocals(text) ==
    /\ stream = text
    /\ fedTo = 0
    /\ chunksFed = 0
    /\ handler = NewHandler

ChunkIdle == ChunkLocals(<<>>)

\* parsePGN was not called yet
NotParsed == <<<<"?">>>>

\* parsePGN is about to be called with the text of the game
PgnLocals(ms, text) ==
    /\ played = ms
    /\ pgn = text
    /\ parsed = NotParsed

PgnIdle == PgnLocals(<<>>, <<>>)

\* no Game row for the gameId
NoGame == [exists |-> FALSE, plies |-> 0]

\* a Move row that was not created, and one whose evaluation is null
NoRow == [row |-> FALSE, evaluated |-> FALSE, evaluation |-> 0]
NewRow == [row |-> TRUE, evaluated |-> FALSE, evaluation |-> 0]

\* the moveNumber the game gateway saves ply k (from 1) under:
\* Math.ceil(chess.moveNumber() / 2), where the full-move number after
\* ply k is floor(k / 2) + 1
SavedMoveNumber(k) == ((k \div 2) + 2) \div 2

\* the moveNumbers Move rows can have
MoveNumbers == 1 .. ((MaxStoredPlies \div 2) + 1)

\* the Move rows of a game of n plies: saveMove upserts one per moveNumber
SavedRows(n) ==
    [m \in MoveNumbers |->
        IF \E k \in 1 .. n : SavedMoveNumber(k) = m THEN NewRow ELSE NoRow]

\* the store before the job's handler ever ran
StoreLocals(game) ==
    /\ hpc = "idle"
    /\ gameRow = game
    /\ analysisRows = 0
    /\ moveRows = SavedRows(game.plies)
    /\ result = <<>>
    /\ updated = <<>>
    /\ attempt = 0
    /\ error = ""

StoreIdle == StoreLocals(NoGame)

OtherIdle ==
    /\ LifeIdle
    /\ ChunkIdle
    /\ PgnIdle
    /\ StoreIdle
    /\ ClassIdle
    /\ QueueIdle
    /\ ProtocolIdle

Init == PoolInit /\ GameLocals("idle", <<>>) /\ OtherIdle

\* createEngine registering the engine as soon as it is spawned
CreateEngineSpawn_Registers ==
    /\ initPc = "spawn"
    /\ Len(engines) < POOL_SIZE
    /\ proc' = [proc EXCEPT ![Len(engines) + 1] = "starting"]
    /\ engines' = Push(engines, Len(engines) + 1)
    /\ enginePool' = Push(enginePool, Len(engines) + 1)
    /\ initPc' = "wait"
    /\ exited' = NoExit
    /\ UNCHANGED <<pc, held, inflight, gameVars, otherVars>>

\* onModuleInit / createEngine up to its await: spawn the next engine and
\* write the uci handshake
CreateEngineSpawn ==
    /\ initPc = "spawn"
    /\ Len(engines) < POOL_SIZE
    /\ proc' = [proc EXCEPT ![Len(engines) + 1] = "starting"]
    /\ initPc' = "wait"
    /\ exited' = NoExit
    /\ UNCHANGED <<engines, enginePool, pc, held, inflight, gameVars,
                   otherVars>>

\* createEngine after its await: the engine printed readyok; register it,
\* and onModuleInit goes on to the next engine
CreateEngineReady ==
    /\ initPc = "wait"
    /\ LET e == Len(engines) + 1 IN
        /\ proc[e] = "starting"
        /\ proc' = [proc EXCEPT ![e] = "alive"]
        /\ engines' = Push(engines, e)
        /\ enginePool' = Push(enginePool, e)
        /\ initPc' = IF e = POOL_SIZE THEN "done" ELSE "spawn"
    /\ exited' = NoExit
    /\ UNCHANGED <<pc, held, inflight, gameVars, otherVars>>

\* ------------------------------------------------------------- callers

\* the caller awaits the bestmove line of a search
Waiting(c) == pc[c] \in {"pos_wait", "game_wait_best", "game_wait_after"}

\* the searches in flight after a turn of caller c on engine e: a caller
\* that was waiting runs because the bestmove line of its search was
\* received, and `sent` is how many `go` commands the turn wrote
Flight(c, e, sent) ==
    [inflight EXCEPT ![e] = @ - (IF Waiting(c) THEN 1 ELSE 0) + sent]

\* finally { this.releaseEngine(engine) }, then the call returns its
\* result or re-raises the error
Finally(c, k, e, pool, how) ==
    /\ pc' = [pc EXCEPT ![c] = "idle"]
    /\ held' = [held EXCEPT ![c] = NoEngine]
    /\ enginePool' = releaseEngine(pool, e)
    /\ exited' = [kind |-> k, how |-> how, engine |-> e]
    /\ inflight' = Flight(c, e, 0)

\* `go` was written: the caller keeps the engine and awaits its output
Await(c, e, pool, at) ==
    /\ pc' = [pc EXCEPT ![c] = at]
    /\ held' = [held EXCEPT ![c] = e]
    /\ enginePool' = pool
    /\ exited' = NoExit
    /\ inflight' = Flight(c, e, 1)

\* one turn of the ply loop of analyzeGame, entered with the loop
\* condition i < moves.length evaluated to `more`: write `position` and
\* `go movetime` and await the first search, or leave the loop, compute
\* the metrics and return through finally
GameLoop(c, e, pool, more, writeOk) ==
    IF ~more THEN Finally(c, "game", e, pool, "returned")
    ELSE IF writeOk THEN Await(c, e, pool, "game_wait_best")
    ELSE Finally(c, "game", e, pool, "raised")

\* analyzePosition without its finally block: a write that raises leaves
\* the call with the engine still out of the pool
PositionBody_NoFinally(c, e, pool, writeOk) ==
    IF writeOk THEN Await(c, e, pool, "pos_wait")
    ELSE /\ pc' = [pc EXCEPT ![c] = "idle"]
         /\ held' = [held EXCEPT ![c] = NoEngine]
         /\ enginePool' = pool
         /\ exited' = [kind |-> "position", how |-> "raised", engine |-> e]
         /\ inflight' = inflight

\* analyzePosition without `await` before its promise: `go` is written
\* and the finally block runs at once
PositionBody_NoAwait(c, e, pool, writeOk) ==
    IF writeOk
    THEN /\ pc' = [pc EXCEPT ![c] = "idle"]
         /\ held' = [held EXCEPT ![c] = NoEngine]
         /\ enginePool' = releaseEngine(pool, e)
         /\ exited' = [kind |-> "position", how |-> "returned", engine |-> e]
         /\ inflight' = Flight(c, e, 1)
    ELSE Finally(c, "position", e, pool, "raised")

\* the code of analyzePosition from the resumption of `await getEngine()`
\* to its next await: the try block writes `position` and `go`; a write
\* that raises runs the finally block
PositionBody(c, e, pool, writeOk) ==
    IF writeOk THEN Await(c, e, pool, "pos_wait")
    ELSE Finally(c, "position", e, pool, "raised")

\* parsePGN raises when pgn is not a string (pgn.replace is not a
\* function); it is called outside the try block of analyzeGame, so the
\* error leaves the call with the popped engine in no collection
ParseRaises(c, e, pool) ==
    /\ pc' = [pc EXCEPT ![c] = "idle"]
    /\ held' = [held EXCEPT ![c] = NoEngine]
    /\ enginePool' = pool
    /\ exited' = [kind |-> "game", how |-> "raised", engine |-> e]
    /\ inflight' = inflight

\* the code of analyzeGame from the resumption of `await getEngine()` to
\* its next await
GameBody(c, e, pool, isString, more, writeOk) ==
    IF ~isString THEN ParseRaises(c, e, pool)
    ELSE GameLoop(c, e, pool, more, writeOk)

\* getEngine reading the last engine of the pool without removing it
getEngine_NoPop(c, k, strs) ==
    IF Len(enginePool) = 0
    THEN /\ pc' = [pc EXCEPT ![c] = IF k = "position" THEN "pos_sleep" ELSE "game_sleep"]
         /\ exited' = NoExit
         /\ UNCHANGED <<enginePool, held, inflight>>
    ELSE \E writeOk \in BOOLEAN :
            IF k = "position"
            THEN PositionBody(c, Top(enginePool), enginePool, writeOk)
            ELSE \E isString \in strs, more \in BOOLEAN :
                    GameBody(c, Top(enginePool), enginePool, isString, more, writeOk)

\* getEngine: an empty pool suspends the caller on a 100 ms timer;
\* otherwise the caller pops an engine and its call goes on. `strs` is
\* what the environment may pass as pgn: {TRUE} when it is a string as
\* the signature says, BOOLEAN when anything may arrive at run time
getEngine(c, k, strs) ==
    IF Len(enginePool) = 0
    THEN /\ pc' = [pc EXCEPT ![c] = IF k = "position" THEN "pos_sleep" ELSE "game_sleep"]
         /\ exited' = NoExit
         /\ UNCHANGED <<enginePool, held, inflight>>
    ELSE \E writeOk \in BOOLEAN :
            IF k = "position"
            THEN PositionBody(c, Top(enginePool), Pop(enginePool), writeOk)
            ELSE \E isString \in strs, more \in BOOLEAN :
                    GameBody(c, Top(enginePool), Pop(enginePool), isString, more, writeOk)

\* callers are anonymous: a new call takes the lowest free caller slot
FreeSlot(c) == pc[c] = "idle" /\ \A d \in Callers : d < c => pc[d] # "idle"

\* the position descriptors callers pass, as their space-separated
\* fields: a position with the first player to move, and a text that is
\* no position
Fens == {<<"8/8/8/8/8/8/8/K6k", "w", "-", "-", "0", "1">>, <<"hello">>}

\* the descriptor of the call in slot c: analyzePosition never looks at
\* it, it only copies it into the `position fen` command
FenOf(c) ==
    IF c % 2 = 1 THEN <<"8/8/8/8/8/8/8/K6k", "w", "-", "-", "0", "1">>
    ELSE <<"hello">>

\* a caller calls analyzePosition(fen)
analyzePosition(c) ==
    /\ FreeSlot(c)
    /\ getEngine(c, "position", {TRUE})
    /\ UNCHANGED <<proc, engines, initPc, gameVars, otherVars>>

\* a caller calls analyzeGame(pgn)
analyzeGame(c, strs) ==
    /\ FreeSlot(c)
    /\ getEngine(c, "game", strs)
    /\ UNCHANGED <<proc, engines, initPc, gameVars, otherVars>>

\* the 100 ms timer of getEngine fires: `return this.getEngine()`
getEngineRetry(c, strs) ==
    /\ pc[c] \in {"pos_sleep", "game_sleep"}
    /\ getEngine(c, IF pc[c] = "pos_sleep" THEN "position" ELSE "game", strs)
    /\ UNCHANGED <<proc, engines, initPc, gameVars, otherVars>>

\* the engine of a waiting analyzePosition prints its bestmove line:
\* dataHandler resolves, finally releases the engine, the call returns
PositionBestmove(c) ==
    /\ pc[c] = "pos_wait"
    /\ proc[held[c]] = "alive"
    /\ Finally(c, "position", held[c], enginePool, "returned")
    /\ UNCHANGED <<proc, engines, initPc, gameVars, otherVars>>

\* waitForAnalysis resolves for the search before the move: analyzeGame
\* appends the move, writes `position` and `go movetime` again
GameBestmoveBefore(c) ==
    /\ pc[c] = "game_wait_best"
    /\ proc[held[c]] = "alive"
    /\ \E writeOk \in BOOLEAN :
        IF writeOk THEN Await(c, held[c], enginePool, "game_wait_after")
        ELSE Finally(c, "game", held[c], enginePool, "raised")
    /\ UNCHANGED <<proc, engines, initPc, gameVars, otherVars>>

\* waitForAnalysis resolves for the search after the move: analyzeGame
\* records the move and goes round the loop
GameBestmoveAfter(c) ==
    /\ pc[c] = "game_wait_after"
    /\ proc[held[c]] = "alive"
    /\ \E more, writeOk \in BOOLEAN : GameLoop(c, held[c], enginePool, more, writeOk)
    /\ UNCHANGED <<proc, engines, initPc, gameVars, otherVars>>

\* the environment kills an engine process
KillEngine(e) ==
    /\ proc[e] \in {"starting", "alive"}
    /\ Cardinality(Dead) < MaxKills
    /\ proc' = [proc EXCEPT ![e] = "dead"]
    /\ exited' = NoExit
    /\ UNCHANGED <<engines, enginePool, initPc, pc, held, inflight, gameVars,
                   otherVars>>

\* ------------------------------------------------------------- shutdown

\* the processes after engine.kill() for every engine of es: kill() of a
\* process that exited sends nothing, returns false and raises nothing
Killed(es) == [e \in Engines |-> IF e \in es THEN "dead" ELSE proc[e]]

\* onModuleDestroy looping over the available engines only
onModuleDestroy_PoolOnly ==
    /\ destroyed < MaxDestroys
    /\ proc' = Killed(Range(enginePool))
    /\ destroyed' = destroyed + 1
    /\ exited' = NoExit
    /\ UNCHANGED <<engines, enginePool, initPc, pc, held, inflight,
                   cancelRequested, gameVars, chunkVars, pgnVars, storeVars,
                   classVars, queueVars, protocolVars>>

\* onModuleDestroy: for (const engine of this.engines) engine.kill().
\* The lists are left as they are and no call in flight is told
onModuleDestroy ==
    /\ destroyed < MaxDestroys
    /\ proc' = Killed(Range(engines))
    /\ destroyed' = destroyed + 1
    /\ exited' = NoExit
    /\ UNCHANGED <<engines, enginePool, initPc, pc, held, inflight,
                   cancelRequested, gameVars, chunkVars, pgnVars, storeVars,
                   classVars, queueVars, protocolVars>>

\* Somebody wants the call of c that is in flight cancelled.
\* analyzePosition(fen) and analyzeGame(pgn) take no signal or token and
\* the service has no method to cancel a call: the request reaches no
\* code and changes nothing in the service
RequestCancel(c) ==
    /\ pc[c] # "idle"
    /\ ~cancelRequested[c]
    /\ cancelRequested' = [cancelRequested EXCEPT ![c] = TRUE]
    /\ exited' = NoExit
    /\ UNCHANGED <<proc, engines, enginePool, initPc, pc, held, inflight,
                   destroyed, gameVars, chunkVars, pgnVars, storeVars,
                   classVars, queueVars, protocolVars>>

\* ------------------------------------------------------------- engine output

\* the engine's centipawn scores (a search without a score line leaves
\* the evaluation 0) and the moves it proposes
Scores == {-25, 25, 175}
EngineMoves == {"e4", "e5"}
\* the moves of the games analysed
MainLine == <<"e4", "e5", "Nf3", "Nc6">>

\* a line `info ... score cp <cp> ...` and a line `bestmove <move>`
InfoLine(cp) == [t |-> "info", cp |-> cp, move |-> ""]
BestmoveLine(m) == [t |-> "bestmove", cp |-> 0, move |-> m]

SeqsUpTo(S, n) == UNION {[1 .. k -> S] : k \in 0 .. n}
InfoLines == {InfoLine(cp) : cp \in Scores}
\* a chunk of stdout is some lines; bestmove is the last line of a search
InfoChunks == SeqsUpTo(InfoLines, MaxChunkLines) \ {<<>>}
BestmoveChunks ==
    {Append(pre, BestmoveLine(m)) :
        pre \in SeqsUpTo(InfoLines, MaxChunkLines - 1), m \in EngineMoves}

\* the games analysed, this.parsePGN(pgn): the main line cut after each ply
Games == {[k \in 1 .. n |-> MainLine[((k - 1) % Len(MainLine)) + 1]] : n \in 0 .. MaxPlies}

\* String.prototype.match without the g flag: the first match
FirstLine(ch, t) == ch[CHOOSE k \in 1 .. Len(ch) :
                        ch[k].t = t /\ \A j \in 1 .. (k - 1) : ch[j].t # t]
Includes(ch, t) == \E k \in 1 .. Len(ch) : ch[k].t = t

\* waitForAnalysis dataHandler: `evaluation` after the chunk
dataHandlerEvaluation(ev, ch) ==
    IF Includes(ch, "info") THEN FirstLine(ch, "info").cp ELSE ev

\* waitForAnalysis dataHandler: what a chunk with bestmove resolves with
dataHandlerResult(ev, ch) ==
    [evaluation |-> dataHandlerEvaluation(ev, ch),
     bestMove |-> IF Includes(ch, "bestmove")
                  THEN FirstLine(ch, "bestmove").move ELSE ""]

\* the dataHandler resolving on every chunk
Resolves_AnyChunk(ch) == TRUE

\* if (output.includes('bestmove')) { ...; resolve(...) }
Resolves(ch) == Includes(ch, "bestmove")

\* the last score line of a chunk
LastInfo(ch) == ch[CHOOSE k \in 1 .. Len(ch) :
                      ch[k].t = "info" /\ \A j \in (k + 1) .. Len(ch) : ch[j].t # "info"]

\* analyzeGame writes `go movetime` and calls waitForAnalysis: a fresh
\* evaluation, and dataHandler is attached
WaitForAnalysis ==
    /\ ~listening
    /\ Len(searchEvals) < MaxSearches
    /\ listening' = TRUE
    /\ searching' = TRUE
    /\ evaluation' = 0
    /\ curScored' = FALSE
    /\ UNCHANGED <<emitted, lastScore, searchLog, gpc, moves, i, position,
                   bestMoveAnalysis, searchEvals, totalCentipawnLoss, moveCount,
                   analysis, poolVars, callVars, classVars, queueVars, posVars>>

\* the searching engine prints a chunk; bestmove ends its search. The
\* attached dataHandler keeps the score and resolves on bestmove,
\* detaching itself
EngineChunk(ch) ==
    /\ searching
    /\ searching' = ~Includes(ch, "bestmove")
    /\ emitted' = emitted + (IF Includes(ch, "bestmove") THEN 1 ELSE 0)
    /\ lastScore' = IF Includes(ch, "info")
                    THEN [any |-> TRUE, cp |-> LastInfo(ch).cp] ELSE lastScore
    /\ IF listening
       THEN /\ curScored' = (curScored \/ Includes(ch, "info"))
            /\ IF Resolves(ch)
               THEN LET res == dataHandlerResult(evaluation, ch) IN
                    /\ evaluation' = res.evaluation
                    /\ bestMoveAnalysis' = res
                    /\ searchEvals' = Append(searchEvals, res.evaluation)
                    /\ searchLog' = Append(searchLog,
                            [scored |-> curScored \/ Includes(ch, "info"),
                             known |-> lastScore])
                    /\ listening' = FALSE
               ELSE /\ evaluation' = dataHandlerEvaluation(evaluation, ch)
                    /\ UNCHANGED <<bestMoveAnalysis, searchEvals, searchLog,
                                   listening>>
       ELSE UNCHANGED <<curScored, evaluation, bestMoveAnalysis, searchEvals,
                        searchLog, listening>>
    /\ UNCHANGED <<gpc, moves, i, position, totalCentipawnLoss, moveCount,
                   analysis, poolVars, callVars, classVars, queueVars, posVars>>

\* ------------------------------------------------------------- output as text

\* 'score cp', 'score cp ', 'bestmove' and 'bestmove ' as characters
ScoreCp ==
    <<"s", "c", "o", "r", "e", " ", "c", "p">>
ScoreCpSp == ScoreCp \o <<" ">>
Bestmove ==
    <<"b", "e", "s", "t", "m", "o", "v", "e">>
BestmoveSp == Bestmove \o <<" ">>

Digits == {"0", "1", "2", "3", "4", "5", "6", "7", "8", "9"}
\* \s of the regular expressions, as far as the engine prints it
WhiteSpace == {" ", "\n"}

\* what the engine prints for one search, shortened to the parts the
\* handler looks at: a score line and the bestmove line
Streams == {
    <<"i", "n", "f", "o", " ", "s", "c", "o", "r", "e", " ", "c", "p", " ",
      "2", "5", "\n", "b", "e", "s", "t", "m", "o", "v", "e", " ", "e",
      "4", "\n">>,
    <<"i", "n", "f", "o", " ", "s", "c", "o", "r", "e", " ", "c", "p", " ",
      "-", "1", "7", "5", "\n", "b", "e", "s", "t", "m", "o", "v", "e",
      " ", "e", "2", "e", "4", "\n">>}

\* the text s has pat at index k
StartsWith(s, k, pat) ==
    /\ k + Len(pat) - 1 <= Len(s)
    /\ \A j \in 1 .. Len(pat) : s[k + j - 1] = pat[j]

\* output.includes(pat)
IncludesText(s, pat) == \E k \in 1 .. Len(s) : StartsWith(s, k, pat)

\* the index after the longest run of characters of class from index k
RECURSIVE RunEnd(_, _, _)
RunEnd(s, k, class) ==
    IF k <= Len(s) /\ s[k] \in class THEN RunEnd(s, k + 1, class) ELSE k

\* parseInt of the digits s[from .. to - 1]
DigitValue(d) ==
    CHOOSE v \in 0 .. 9 :
        <<"0", "1", "2", "3", "4", "5", "6", "7", "8", "9">>[v + 1] = d
RECURSIVE ParseDigits(_, _, _)
ParseDigits(s, from, to) ==
    IF from >= to THEN 0
    ELSE ParseDigits(s, from, to - 1) * 10 + DigitValue(s[to - 1])

\* /score cp (-?\d+)/ matches at index k
ScoreMatchAt(s, k) ==
    /\ StartsWith(s, k, ScoreCpSp)
    /\ LET d == k + Len(ScoreCpSp) IN
        \/ d <= Len(s) /\ s[d] \in Digits
        \/ d + 1 <= Len(s) /\ s[d] = "-" /\ s[d + 1] \in Digits

\* output.match(/score cp (-?\d+)/): whether it matches and
\* parseInt(match[1]) of the first match
ScoreMatches(s) == \E k \in 1 .. Len(s) : ScoreMatchAt(s, k)
ScoreValue(s) ==
    LET k == CHOOSE k \in 1 .. Len(s) :
                ScoreMatchAt(s, k) /\ \A j \in 1 .. (k - 1) : ~ScoreMatchAt(s, j)
        d == k + Len(ScoreCpSp)
    IN  IF s[d] = "-"
        THEN 0 - ParseDigits(s, d + 1, RunEnd(s, d + 1, Digits))
        ELSE ParseDigits(s, d, RunEnd(s, d, Digits))

\* /bestmove (\S+)/ matches at index k
BestmoveMatchAt(s, k) ==
    /\ StartsWith(s, k, BestmoveSp)
    /\ k + Len(BestmoveSp) <= Len(s)
    /\ s[k + Len(BestmoveSp)] \notin WhiteSpace

\* output.match(/bestmove (\S+)/): whether it matches and match[1] of
\* the first match
BestmoveMatches(s) == \E k \in 1 .. Len(s) : BestmoveMatchAt(s, k)
BestmoveValue(s) ==
    LET k == CHOOSE k \in 1 .. Len(s) :
                BestmoveMatchAt(s, k) /\ \A j \in 1 .. (k - 1) : ~BestmoveMatchAt(s, j)
        d == k + Len(BestmoveSp)
        NonSpace == {s[j] : j \in 1 .. Len(s)} \ WhiteSpace
    IN  SubSeq(s, d, RunEnd(s, d, NonSpace) - 1)

\* dataHandler of waitForAnalysis run on the chunk `output`
dataHandler(h, output) ==
    LET ev == IF IncludesText(output, ScoreCp) /\ ScoreMatches(output)
              THEN ScoreValue(output) ELSE h.evaluation
    IN  IF IncludesText(output, Bestmove)
        THEN [evaluation |-> ev,
              bestMove |-> IF BestmoveMatches(output)
                           THEN BestmoveValue(output) ELSE h.bestMove,
              resolved |-> TRUE]
        ELSE [evaluation |-> ev, bestMove |-> h.bestMove, resolved |-> FALSE]

\* a `data` event with the next n characters of the engine's output;
\* after the handler resolved it is detached and the event reaches
\* nobody. The last of MaxChunks events carries all that is left
DataEvent(n) ==
    /\ fedTo + n <= Len(stream)
    /\ chunksFed + 1 = MaxChunks => fedTo + n = Len(stream)
    /\ fedTo' = fedTo + n
    /\ chunksFed' = chunksFed + 1
    /\ handler' = IF handler.resolved THEN handler
                  ELSE dataHandler(handler, SubSeq(stream, fedTo + 1, fedTo + n))
    /\ UNCHANGED <<stream, poolVars, gameVars, lifeVars, pgnVars, storeVars,
                   classVars, queueVars, protocolVars>>

\* ------------------------------------------------------------- parsePGN

\* the moves of an Italian game in standard algebraic notation, as
\* characters; the first player castles at the seventh ply
PgnLine == <<
    <<"e", "4">>,
    <<"e", "5">>,
    <<"N", "f", "3">>,
    <<"N", "c", "6">>,
    <<"B", "c", "4">>,
    <<"B", "c", "5">>,
    <<"O", "-", "O">>,
    <<"N", "f", "6">>,
    <<"d", "3">>,
    <<"O", "-", "O">>>>

\* the game termination markers of a game text, or none
PgnResults == {
    <<>>,
    <<"1", "-", "0">>,
    <<"0", "-", "1">>,
    <<"1", "/", "2", "-", "1", "/", "2">>,
    <<"*">>}

\* a comment a game text may carry after a move
PgnComment == <<"{", "b", "o", "o", "k", "}">>

\* the decimal digits of a move number below 100
Decimal(n) ==
    LET d == <<"0", "1", "2", "3", "4", "5", "6", "7", "8", "9">> IN
    IF n < 10 THEN <<d[n + 1]>> ELSE <<d[(n \div 10) + 1], d[(n % 10) + 1]>>

\* the movetext of the plies from k on: `1. e4 e5 2. Nf3 ...`, every
\* token followed by a space, with the comment after the first move
RECURSIVE Movetext(_, _, _)
Movetext(ms, k, commented) ==
    IF k > Len(ms) THEN <<>>
    ELSE (IF k % 2 = 1 THEN Decimal((k + 1) \div 2) \o <<".", " ">> ELSE <<>>)
         \o ms[k] \o <<" ">>
         \o (IF commented /\ k = 1 THEN PgnComment \o <<" ">> ELSE <<>>)
         \o Movetext(ms, k + 1, commented)

\* the text of a game: movetext and termination marker
GameText(ms, commented, marker) == Movetext(ms, 1, commented) \o marker

\* .replace(/\{[^}]*\}/g, '')
RECURSIVE RemoveComments(_)
RemoveComments(s) ==
    IF s = <<>> THEN <<>>
    ELSE IF Head(s) = "{" /\ \E k \in 1 .. Len(s) : s[k] = "}"
    THEN LET close == CHOOSE k \in 1 .. Len(s) :
                        s[k] = "}" /\ \A j \in 1 .. (k - 1) : s[j] # "}"
         IN  RemoveComments(SubSeq(s, close + 1, Len(s)))
    ELSE <<Head(s)>> \o RemoveComments(Tail(s))

\* .replace(/\d+\./g, '')
RECURSIVE RemoveMoveNumbers(_)
RemoveMoveNumbers(s) ==
    IF s = <<>> THEN <<>>
    ELSE LET e == RunEnd(s, 1, Digits) IN
         IF e > 1 /\ e <= Len(s) /\ s[e] = "."
         THEN RemoveMoveNumbers(SubSeq(s, e + 1, Len(s)))
         ELSE <<Head(s)>> \o RemoveMoveNumbers(Tail(s))

\* .replace(/\s+/g, ' ').trim().split(' ') and the filter's `move &&`:
\* the runs of characters that are not white space
RECURSIVE Words(_)
Words(s) ==
    IF s = <<>> THEN <<>>
    ELSE IF Head(s) \in WhiteSpace THEN Words(Tail(s))
    ELSE LET NonSpace == {s[j] : j \in 1 .. Len(s)} \ WhiteSpace
             e == RunEnd(s, 1, NonSpace)
         IN  <<SubSeq(s, 1, e - 1)>> \o Words(SubSeq(s, e, Len(s)))

\* move.includes('-')
HasDash(w) == \E k \in 1 .. Len(w) : w[k] = "-"

\* parsePGN(pgn)
parsePGN(text) ==
    SelectSeq(Words(RemoveMoveNumbers(RemoveComments(text))),
              LAMBDA move : ~HasDash(move))

\* const moves = this.parsePGN(pgn)
ParsePGN ==
    /\ parsed = NotParsed
    /\ parsed' = parsePGN(pgn)
    /\ UNCHANGED <<played, pgn, poolVars, gameVars, lifeVars, chunkVars,
                   storeVars, classVars, queueVars, protocolVars>>

\* ------------------------------------------------------------- analyzePosition output

\* scores and first moves of the candidate lines the engine reports
PosScores == {-40, 40}
PosMoves == {"e2e4", "d2d4"}

\* `info depth <d> multipv <r> score cp <cp> pv <move> ...`
MultiPVLine(d, r, cp, m) ==
    [t |-> "info", depth |-> d, multipv |-> r, cp |-> cp, move |-> m]

\* the engine prints iteration after iteration, in each the candidate
\* lines by rank: depth and rank of the line that follows the lines ls
NextDepth(ls) == (Len(ls) \div MultiPV) + 1
NextRank(ls) == (Len(ls) % MultiPV) + 1

\* parseInt(match[1]) / 100
Pawns(cp) == Frac(cp, 100)

\* the parsing loop `for (const line of lines)` run on bestmove
RECURSIVE ParseLines(_, _)
ParseLines(an, ls) ==
    IF ls = <<>> THEN an
    ELSE LET line == Head(ls) IN
         ParseLines(
            [evaluation |-> Pawns(line.cp),
             bestMoves |-> Append(an.bestMoves,
                [move |-> line.move, evaluation |-> Pawns(line.cp),
                 continuation |-> line.move]),
             depth |-> Max(an.depth, line.depth)],
            Tail(ls))

\* analyzePosition after getEngine: `position fen` and `go depth` are
\* written and dataHandler is attached
StartPosition ==
    /\ ppc = "start"
    /\ ppc' = "wait"
    /\ UNCHANGED <<fenSide, lines, posAnalysis, poolVars, gameVars, callVars,
                   classVars, queueVars, searchVars>>

\* a chunk with the next candidate line, its score cp and its first
\* move m: dataHandler collects it
PositionInfo(cp, m) ==
    /\ ppc = "wait"
    /\ NextDepth(lines) <= MaxDepth
    /\ lines' = Append(lines, MultiPVLine(NextDepth(lines), NextRank(lines), cp, m))
    /\ UNCHANGED <<ppc, fenSide, posAnalysis, poolVars, gameVars, callVars,
                   classVars, queueVars, searchVars>>

\* the chunk with bestmove: dataHandler detaches, parses the collected
\* lines and resolves
PositionResult ==
    /\ ppc = "wait"
    /\ posAnalysis' = ParseLines(posAnalysis, lines)
    /\ ppc' = "done"
    /\ UNCHANGED <<fenSide, lines, poolVars, gameVars, callVars, classVars,
                   queueVars, searchVars>>

\* ------------------------------------------------------------- analyzeGame

\* the thresholds tested in ascending order
categorizeMove_Ascending(centipawnLoss) ==
    IF centipawnLoss <= 10 THEN "best"
    ELSE IF centipawnLoss >= 50 THEN "inaccuracy"
    ELSE IF centipawnLoss >= 100 THEN "mistake"
    ELSE IF centipawnLoss >= 300 THEN "blunder"
    ELSE "good"

\* the thresholds compared with > and < instead of >= and <=
categorizeMove_Strict(centipawnLoss) ==
    IF centipawnLoss > 300 THEN "blunder"
    ELSE IF centipawnLoss > 100 THEN "mistake"
    ELSE IF centipawnLoss > 50 THEN "inaccuracy"
    ELSE IF centipawnLoss < 10 THEN "best"
    ELSE "good"

categorizeMove(centipawnLoss) ==
    IF centipawnLoss >= 300 THEN "blunder"
    ELSE IF centipawnLoss >= 100 THEN "mistake"
    ELSE IF centipawnLoss >= 50 THEN "inaccuracy"
    ELSE IF centipawnLoss <= 10 THEN "best"
    ELSE "good"

\* afterMoveAnalysis.evaluation * (i % 2 === 0 ? 1 : -1)
ActualEval(afterEval, idx) == afterEval * (IF idx % 2 = 0 THEN 1 ELSE -1)

\* the loss without Math.max(0, ...)
CentipawnLoss_NoClamp(expectedEval, actualEval) == expectedEval - actualEval

\* Math.max(0, expectedEval - actualEval)
CentipawnLoss(expectedEval, actualEval) == Max(0, expectedEval - actualEval)

\* const moveAnalysis: MoveAnalysis = { ... } for loop index idx
MoveAnalysis(idx, move, best, after) ==
    LET actualEval == ActualEval(after.evaluation, idx)
        centipawnLoss == CentipawnLoss(best.evaluation, actualEval)
    IN  [moveNumber |-> (idx \div 2) + 1,
         move |-> move,
         evaluation |-> actualEval,
         bestMove |-> best.bestMove,
         centipawnLoss |-> centipawnLoss,
         category |-> categorizeMove(centipawnLoss)]

\* the error lists without the `mistake` branch
TrackMove_NoMistakes(an, rec) ==
    [an EXCEPT
        !.moves = Append(@, rec),
        !.blunders = IF rec.category = "blunder" THEN Append(@, rec) ELSE @,
        !.inaccuracies = IF rec.category = "inaccuracy" THEN Append(@, rec) ELSE @]

\* analysis.moves.push(moveAnalysis) and the error lists
TrackMove(an, rec) ==
    [an EXCEPT
        !.moves = Append(@, rec),
        !.blunders = IF rec.category = "blunder" THEN Append(@, rec) ELSE @,
        !.mistakes = IF rec.category = "mistake" THEN Append(@, rec) ELSE @,
        !.inaccuracies = IF rec.category = "inaccuracy" THEN Append(@, rec) ELSE @]

\* gameQuality without Math.max(0, Math.min(100, ...))
OverallMetrics_NoClamp(an, total, count) ==
    LET avg == IF count > 0 THEN Frac(total, count) ELSE Zero IN
    [an EXCEPT
        !.averageCentipawnLoss = avg,
        !.gameQuality = FracSub(Frac(100, 1), avg)]

\* averageCentipawnLoss without the division by moveCount
OverallMetrics_NoDivision(an, total, count) ==
    LET avg == Frac(total, 1) IN
    [an EXCEPT
        !.averageCentipawnLoss = avg,
        !.gameQuality =
            FracMax(Zero, FracMin(Frac(100, 1), FracSub(Frac(100, 1), avg)))]

\* averageCentipawnLoss and gameQuality after the loop
OverallMetrics(an, total, count) ==
    LET avg == IF count > 0 THEN Frac(total, count) ELSE Zero IN
    [an EXCEPT
        !.averageCentipawnLoss = avg,
        !.gameQuality =
            FracMax(Zero, FracMin(Frac(100, 1), FracSub(Frac(100, 1), avg)))]

\* analyzeGame from parsePGN to the first await: the loop writes
\* `position startpos` and `go movetime` and awaits the search, or there
\* is no move and the metrics are computed at once
StartGame ==
    /\ gpc = "start"
    /\ IF Len(moves) > 0
       THEN gpc' = "wait_best" /\ analysis' = analysis
       ELSE gpc' = "done" /\ analysis' = OverallMetrics(analysis, 0, 0)
    /\ UNCHANGED <<moves, i, position, evaluation, bestMoveAnalysis,
                   searchEvals, totalCentipawnLoss, moveCount, poolVars,
                   otherVars>>

\* a chunk of info lines reaches dataHandler of waitForAnalysis
InfoChunk(ch) ==
    /\ gpc \in {"wait_best", "wait_after"}
    /\ evaluation' = dataHandlerEvaluation(evaluation, ch)
    /\ UNCHANGED <<gpc, moves, i, position, bestMoveAnalysis, searchEvals,
                   totalCentipawnLoss, moveCount, analysis, poolVars,
                   otherVars>>

\* the second search started on the position before the move
BestmoveBefore_NoMove(ch) ==
    /\ gpc = "wait_best"
    /\ LET res == dataHandlerResult(evaluation, ch) IN
        /\ bestMoveAnalysis' = res
        /\ searchEvals' = Append(searchEvals, res.evaluation)
    /\ position' = position
    /\ evaluation' = 0
    /\ gpc' = "wait_after"
    /\ UNCHANGED <<moves, i, totalCentipawnLoss, moveCount, analysis, poolVars,
                   otherVars>>

\* the chunk with bestmove of the search before the move: waitForAnalysis
\* resolves, the move is appended to the position, the second search starts
BestmoveBefore(ch) ==
    /\ gpc = "wait_best"
    /\ LET res == dataHandlerResult(evaluation, ch) IN
        /\ bestMoveAnalysis' = res
        /\ searchEvals' = Append(searchEvals, res.evaluation)
    /\ position' = Append(position, moves[i + 1])
    /\ evaluation' = 0
    /\ gpc' = "wait_after"
    /\ UNCHANGED <<moves, i, totalCentipawnLoss, moveCount, analysis, poolVars,
                   otherVars>>

\* the chunk with bestmove of the search after the move: the move is
\* recorded, and the loop goes on or the metrics are computed
BestmoveAfter(ch) ==
    /\ gpc = "wait_after"
    /\ LET res == dataHandlerResult(evaluation, ch)
           rec == MoveAnalysis(i, moves[i + 1], bestMoveAnalysis, res)
           total == totalCentipawnLoss + rec.centipawnLoss
           an == TrackMove(analysis, rec)
       IN  /\ searchEvals' = Append(searchEvals, res.evaluation)
           /\ totalCentipawnLoss' = total
           /\ moveCount' = moveCount + 1
           /\ i' = i + 1
           /\ evaluation' = 0
           /\ IF i + 1 < Len(moves)
              THEN gpc' = "wait_best" /\ analysis' = an
              ELSE gpc' = "done" /\ analysis' = OverallMetrics(an, total, moveCount + 1)
    /\ UNCHANGED <<moves, position, bestMoveAnalysis, poolVars, otherVars>>

\* ------------------------------------------------------------- analysis queue

\* the next job id: jobs are numbered in submission order
NextJob(j) ==
    /\ jobs[j].state = "none"
    /\ \A k \in Jobs : k < j => jobs[k].state # "none"

\* analysisQueue.add(name, data, opts)
Add(j, kind, priority, attempts) ==
    /\ NextJob(j)
    /\ jobs' = [jobs EXCEPT ![j] =
            [state |-> "waiting", kind |-> kind, priority |-> priority,
             attempts |-> attempts, attemptsMade |-> 0]]
    /\ taken' = NoneTaken
    /\ UNCHANGED <<worker, runs, poolVars, gameVars, callVars, classVars,
                   protocolVars>>

\* requestAnalysis with the default of one attempt
requestAnalysis_OneAttempt(j, longGame) ==
    Add(j, "game", IF longGame THEN 1 ELSE 2, 1)

\* requestAnalysis: priority 1 for a game of more than 40 moves, else 2;
\* attempts 3 with exponential backoff
requestAnalysis(j, longGame) ==
    Add(j, "game", IF longGame THEN 1 ELSE 2, 3)

\* getPositionAnalysis: priority 3, attempts 1
getPositionAnalysis(j) ==
    Add(j, "position", 3, 1)

WaitingJobs(js) == {k \in Jobs : js[k].state = "waiting"}

\* job a is served before job b: the lower priority value, then the
\* earlier submission
ServedBefore(a, b) ==
    \/ jobs[a].priority < jobs[b].priority
    \/ jobs[a].priority = jobs[b].priority /\ a <= b

\* the waiting job submitted first, whatever its priority
NextWaiting_Fifo(j) ==
    /\ jobs[j].state = "waiting"
    /\ \A k \in WaitingJobs(jobs) : j <= k

\* the waiting job the queue hands out next
NextWaiting(j) ==
    /\ jobs[j].state = "waiting"
    /\ \A k \in WaitingJobs(jobs) : ServedBefore(j, k)

\* the job taken stays in the waiting list
Dequeue_NoLock(w, j) ==
    /\ worker[w] = NoJob
    /\ \A v \in Workers : v < w => worker[v] # NoJob
    /\ NextWaiting(j)
    /\ worker' = [worker EXCEPT ![w] = j]
    /\ runs' = [runs EXCEPT ![j] = @ + 1]
    /\ taken' = [job |-> j, left |-> WaitingJobs(jobs) \ {j}]
    /\ UNCHANGED <<jobs, poolVars, gameVars, callVars, classVars, protocolVars>>

\* an idle worker (the first one) takes the next waiting job and starts
\* its handler: handleGameAnalysis or handlePositionAnalysis
Dequeue(w, j) ==
    /\ worker[w] = NoJob
    /\ \A v \in Workers : v < w => worker[v] # NoJob
    /\ NextWaiting(j)
    /\ jobs' = [jobs EXCEPT ![j].state = "active"]
    /\ worker' = [worker EXCEPT ![w] = j]
    /\ runs' = [runs EXCEPT ![j] = @ + 1]
    /\ taken' = [job |-> j, left |-> WaitingJobs(jobs) \ {j}]
    /\ UNCHANGED <<poolVars, gameVars, callVars, classVars, protocolVars>>

\* the handler's promise resolves: the job is completed
HandlerReturns(w) ==
    /\ worker[w] # NoJob
    /\ jobs' = [jobs EXCEPT ![worker[w]].state = "completed"]
    /\ worker' = [worker EXCEPT ![w] = NoJob]
    /\ taken' = NoneTaken
    /\ UNCHANGED <<runs, poolVars, gameVars, callVars, classVars, protocolVars>>

\* a failed attempt: retried after the backoff delay while attempts
\* remain, else permanently failed
RetryOrFail(job) ==
    LET made == job.attemptsMade + 1 IN
    [job EXCEPT !.attemptsMade = made,
                !.state = IF made < job.attempts THEN "delayed" ELSE "failed"]

\* the handler's promise rejects (handleGameAnalysis logs and rethrows)
HandlerRaises(w) ==
    /\ worker[w] # NoJob
    /\ jobs' = [jobs EXCEPT ![worker[w]] = RetryOrFail(@)]
    /\ worker' = [worker EXCEPT ![w] = NoJob]
    /\ taken' = NoneTaken
    /\ UNCHANGED <<runs, poolVars, gameVars, callVars, classVars, protocolVars>>

\* the backoff delay of a retried job is over: it waits again
Promote(j) ==
    /\ jobs[j].state = "delayed"
    /\ jobs' = [jobs EXCEPT ![j].state = "waiting"]
    /\ taken' = NoneTaken
    /\ UNCHANGED <<worker, runs, poolVars, gameVars, callVars, classVars,
                   protocolVars>>

\* ------------------------------------------------------------- handleGameAnalysis

\* the job, the worker and the caller slot of the one job submitted
StoreJob == 1
StoreWorker == 1
StoreCaller == 1

\* the pool but for the note of the call that ended
poolState == <<proc, engines, enginePool, initPc, pc, held, inflight>>

\* analysis.moves of a game of n plies whose every search scored 25
AnalysedMoves(n) ==
    [k \in 1 .. n |->
        MoveAnalysis(k - 1, MainLine[((k - 1) % Len(MainLine)) + 1],
                     [evaluation |-> 25, bestMove |-> "e4"],
                     [evaluation |-> 25, bestMove |-> "e5"])]

\* the handler calling analyzeGame whether or not the game was found
FindGame_NoCheck ==
    /\ worker[StoreWorker] = StoreJob
    /\ attempt < runs[StoreJob]
    /\ attempt' = runs[StoreJob]
    /\ result' = <<>>
    /\ updated' = <<>>
    /\ hpc' = "call"
    /\ error' = ""
    /\ exited' = NoExit
    /\ UNCHANGED <<gameRow, analysisRows, moveRows, poolState, gameVars, lifeVars,
                   chunkVars, pgnVars, classVars, queueVars, protocolVars>>

\* handleGameAnalysis from its start to the answer of game.findUnique:
\* without a game it raises 'Game not found', which the catch block logs
\* and raises again; with one it goes on to call analyzeGame(game.pgn)
FindGame ==
    /\ worker[StoreWorker] = StoreJob
    /\ attempt < runs[StoreJob]
    /\ attempt' = runs[StoreJob]
    /\ result' = <<>>
    /\ updated' = <<>>
    /\ IF gameRow.exists
       THEN hpc' = "call" /\ error' = ""
       ELSE hpc' = "raised" /\ error' = "Game not found"
    /\ exited' = NoExit
    /\ UNCHANGED <<gameRow, analysisRows, moveRows, poolState, gameVars, lifeVars,
                   chunkVars, pgnVars, classVars, queueVars, protocolVars>>

\* the handler calls analyzeGame once per attempt, from caller slot c
CallsAnalyzeGame(c) ==
    /\ hpc = "call"
    /\ attempt = runs[StoreJob]
    /\ exited.kind # "game"
    /\ c = StoreCaller

\* analyzeGame raised, or it returned and prisma.analysis.create runs:
\* gameId is unique in Analysis, a second row for the game is refused
StoreAnalysis ==
    /\ hpc = "call"
    /\ exited.kind = "game"
    /\ IF exited.how = "raised"
       THEN /\ hpc' = "raised"
            /\ error' = "engine"
            /\ UNCHANGED <<analysisRows, result>>
       ELSE IF analysisRows > 0
       THEN /\ hpc' = "raised"
            /\ error' = "Unique constraint failed"
            /\ UNCHANGED <<analysisRows, result>>
       ELSE /\ analysisRows' = analysisRows + 1
            /\ result' = AnalysedMoves(gameRow.plies)
            /\ hpc' = IF gameRow.plies = 0 THEN "returned" ELSE "update"
            /\ error' = ""
    /\ exited' = NoExit
    /\ UNCHANGED <<gameRow, moveRows, updated, attempt, poolState, gameVars,
                   lifeVars, chunkVars, pgnVars, classVars, queueVars, protocolVars>>

\* prisma.move.update for the next record of analysis.moves: the row
\* with the record's moveNumber gets its evaluation; update of a row
\* that does not exist raises, and so does an update the store cannot
\* serve (storeOk is false)
UpdateMove(storeOk) ==
    /\ hpc = "update"
    /\ LET k == Len(updated) + 1
           m == result[k].moveNumber
       IN  IF ~storeOk
           THEN /\ hpc' = "raised"
                /\ error' = "Can't reach database server"
                /\ UNCHANGED <<moveRows, updated>>
           ELSE IF m \in MoveNumbers /\ moveRows[m].row
           THEN /\ moveRows' = [moveRows EXCEPT ![m] =
                        [row |-> TRUE, evaluated |-> TRUE,
                         evaluation |-> result[k].evaluation]]
                /\ updated' = Append(updated, m)
                /\ hpc' = IF k = Len(result) THEN "returned" ELSE "update"
                /\ error' = ""
           ELSE /\ hpc' = "raised"
                /\ error' = "Record to update not found"
                /\ UNCHANGED <<moveRows, updated>>
    /\ exited' = NoExit
    /\ UNCHANGED <<gameRow, analysisRows, result, attempt, poolState, gameVars,
                   lifeVars, chunkVars, pgnVars, classVars, queueVars, protocolVars>>

\* the handler of the running attempt ended: it returned or raised
HandlerEnded(how) == hpc = how /\ attempt = runs[StoreJob]

\* ------------------------------------------------------------- specifications

\* The service under POOL_SIZE + 1 concurrent callers of both entry
\* points, every pgn a string
Next ==
    \/ CreateEngineSpawn
    \/ CreateEngineReady
    \/ \E c \in Callers : analyzePosition(c)
    \/ \E c \in Callers : analyzeGame(c, {TRUE})
    \/ \E c \in Callers : getEngineRetry(c, {TRUE})
    \/ \E c \in Callers : PositionBestmove(c)
    \/ \E c \in Callers : GameBestmoveBefore(c)
    \/ \E c \in Callers : GameBestmoveAfter(c)

Spec == Init /\ [][Next]_vars

\* The same service when a pgn that is not a string may reach analyzeGame
\* (TypeScript types are erased at run time); two callers
UntypedCallers == 1 .. 2

UntypedNext ==
    \/ CreateEngineSpawn
    \/ CreateEngineReady
    \/ \E c \in UntypedCallers : analyzeGame(c, BOOLEAN)
    \/ \E c \in UntypedCallers : getEngineRetry(c, BOOLEAN)
    \/ \E c \in UntypedCallers : GameBestmoveBefore(c)
    \/ \E c \in UntypedCallers : GameBestmoveAfter(c)

UntypedSpec == Init /\ [][UntypedNext]_vars

\* The service when engine processes may be killed; two callers. Timers
\* fire, a live engine that was told to search prints its bestmove line,
\* a starting engine that lives prints readyok
CrashCallers == 1 .. 2

CrashNext ==
    \/ CreateEngineSpawn
    \/ CreateEngineReady
    \/ \E c \in CrashCallers : analyzePosition(c)
    \/ \E c \in CrashCallers : analyzeGame(c, {TRUE})
    \/ \E c \in CrashCallers : getEngineRetry(c, {TRUE})
    \/ \E c \in CrashCallers : PositionBestmove(c)
    \/ \E c \in CrashCallers : GameBestmoveBefore(c)
    \/ \E c \in CrashCallers : GameBestmoveAfter(c)
    \/ \E e \in Engines : KillEngine(e)

CrashSpec ==
    /\ Init
    /\ [][CrashNext]_vars
    /\ WF_vars(CreateEngineSpawn)
    /\ WF_vars(CreateEngineReady)
    /\ \A c \in CrashCallers :
        /\ WF_vars(getEngineRetry(c, {TRUE}))
        /\ WF_vars(PositionBestmove(c))
        /\ WF_vars(GameBestmoveBefore(c))
        /\ WF_vars(GameBestmoveAfter(c))

\* One waitForAnalysis call whose engine output arrives cut into up to
\* MaxChunks `data` events at any character
ChunkInit ==
    /\ PoolInit
    /\ GameLocals("idle", <<>>)
    /\ LifeIdle
    /\ \E text \in Streams : ChunkLocals(text)
    /\ StoreIdle
    /\ PgnIdle
    /\ ClassIdle
    /\ QueueIdle
    /\ ProtocolIdle

ChunkNext == \E n \in 1 .. Len(stream) : DataEvent(n)

ChunkSpec == ChunkInit /\ [][ChunkNext]_vars

\* parsePGN called with the texts of the games that follow PgnLine for
\* up to MaxPgnPlies plies, with or without a comment and with every
\* termination marker
PgnInit ==
    /\ PoolInit
    /\ GameLocals("idle", <<>>)
    /\ LifeIdle
    /\ ChunkIdle
    /\ StoreIdle
    /\ \E n \in 0 .. MaxPgnPlies, commented \in BOOLEAN, marker \in PgnResults :
        LET ms == SubSeq(PgnLine, 1, n) IN
        PgnLocals(ms, GameText(ms, commented, marker))
    /\ ClassIdle
    /\ QueueIdle
    /\ ProtocolIdle

PgnNext == ParsePGN

PgnSpec == PgnInit /\ [][PgnNext]_vars

\* One game-analysis job from its submission to its end, with its
\* retries, for a gameId without a game or with a game of up to
\* MaxStoredPlies plies whose moves the gateway saved
StoreInit ==
    /\ PoolInit
    /\ GameLocals("idle", <<>>)
    /\ LifeIdle
    /\ ChunkIdle
    /\ PgnIdle
    /\ \E game \in {NoGame}
            \cup {[exists |-> TRUE, plies |-> n] : n \in 0 .. MaxStoredPlies} :
        StoreLocals(game)
    /\ ClassIdle
    /\ QueueIdle
    /\ ProtocolIdle

StoreNext ==
    \/ CreateEngineSpawn
    \/ CreateEngineReady
    \/ requestAnalysis(StoreJob, FALSE)
    \/ Dequeue(StoreWorker, StoreJob)
    \/ Promote(StoreJob)
    \/ FindGame
    \/ \E c \in Callers : CallsAnalyzeGame(c) /\ analyzeGame(c, {TRUE})
    \/ getEngineRetry(StoreCaller, {TRUE})
    \/ GameBestmoveBefore(StoreCaller)
    \/ GameBestmoveAfter(StoreCaller)
    \/ StoreAnalysis
    \/ \E storeOk \in BOOLEAN : UpdateMove(storeOk)
    \/ HandlerEnded("returned") /\ HandlerReturns(StoreWorker)
    \/ HandlerEnded("raised") /\ HandlerRaises(StoreWorker)

StoreSpec == StoreInit /\ [][StoreNext]_vars

\* The service while the module is destroyed and calls are asked to be
\* cancelled. A caller whose call was asked to be cancelled starts no
\* other call, so the request is always about its call in flight or its
\* last call. Engines answer every search while they live
LifeCallers == 1 .. 2

LifeNext ==
    \/ CreateEngineSpawn
    \/ CreateEngineReady
    \/ \E c \in LifeCallers : ~cancelRequested[c] /\ analyzePosition(c)
    \/ \E c \in LifeCallers : ~cancelRequested[c] /\ analyzeGame(c, {TRUE})
    \/ \E c \in LifeCallers : getEngineRetry(c, {TRUE})
    \/ \E c \in LifeCallers : PositionBestmove(c)
    \/ \E c \in LifeCallers : GameBestmoveBefore(c)
    \/ \E c \in LifeCallers : GameBestmoveAfter(c)
    \/ \E c \in LifeCallers : RequestCancel(c)
    \/ onModuleDestroy

LifeSpec ==
    /\ Init
    /\ [][LifeNext]_vars
    /\ WF_vars(CreateEngineSpawn)
    /\ WF_vars(CreateEngineReady)
    /\ \A c \in LifeCallers :
        /\ WF_vars(getEngineRetry(c, {TRUE}))
        /\ WF_vars(PositionBestmove(c))
        /\ WF_vars(GameBestmoveBefore(c))
        /\ WF_vars(GameBestmoveAfter(c))

\* The service under POOL_SIZE + 1 concurrent callers of analyzePosition
\* with healthy engines: timers fire and every search ends
StarveNext ==
    \/ CreateEngineSpawn
    \/ CreateEngineReady
    \/ \E c \in Callers : analyzePosition(c)
    \/ \E c \in Callers : getEngineRetry(c, {TRUE})
    \/ \E c \in Callers : PositionBestmove(c)

StarveSpec ==
    /\ Init
    /\ [][StarveNext]_vars
    /\ WF_vars(CreateEngineSpawn)
    /\ WF_vars(CreateEngineReady)
    /\ \A c \in Callers :
        /\ WF_vars(getEngineRetry(c, {TRUE}))
        /\ WF_vars(PositionBestmove(c))

\* One analyzeGame call on its leased engine, the engine's output drawn
\* from the chunks above
\* the pool when caller 1 has popped the last engine for analyzeGame
GameInit ==
    /\ proc = [e \in Engines |-> "alive"]
    /\ engines = [k \in 1 .. POOL_SIZE |-> k]
    /\ enginePool = [k \in 1 .. (POOL_SIZE - 1) |-> k]
    /\ initPc = "done"
    /\ pc = [c \in Callers |-> IF c = 1 THEN "game_walk" ELSE "idle"]
    /\ held = [c \in Callers |-> IF c = 1 THEN POOL_SIZE ELSE NoEngine]
    /\ exited = NoExit
    /\ inflight = [e \in Engines |-> 0]
    /\ \E ms \in Games : GameLocals("start", ms)
    /\ OtherIdle

GameNext ==
    \/ StartGame
    \/ \E ch \in InfoChunks : InfoChunk(ch)
    \/ \E ch \in BestmoveChunks : BestmoveBefore(ch)
    \/ \E ch \in BestmoveChunks : BestmoveAfter(ch)

GameSpec == GameInit /\ [][GameNext]_vars

\* categorizeMove called on its own with a non-negative loss
Categorize ==
    /\ category = "none"
    /\ category' = categorizeMove(loss)
    /\ UNCHANGED <<loss, poolVars, gameVars, callVars, queueVars, protocolVars>>

ClassInit ==
    /\ PoolInit
    /\ GameLocals("idle", <<>>)
    /\ LifeIdle
    /\ ChunkIdle
    /\ StoreIdle
    /\ PgnIdle
    /\ loss \in 0 .. MaxLoss
    /\ category = "none"
    /\ QueueIdle
    /\ ProtocolIdle

ClassNext == Categorize

ClassSpec == ClassInit /\ [][ClassNext]_vars

\* The analysis queue with the jobs GamesService submits and the two
\* handlers of AnalysisProcessor. Idle workers take waiting jobs and
\* backoff delays end
QueueInit ==
    /\ PoolInit
    /\ GameLocals("idle", <<>>)
    /\ LifeIdle
    /\ ChunkIdle
    /\ StoreIdle
    /\ PgnIdle
    /\ ClassIdle
    /\ QueueIdle
    /\ ProtocolIdle

QueueNext ==
    \/ \E j \in Jobs, longGame \in BOOLEAN : requestAnalysis(j, longGame)
    \/ \E j \in Jobs : getPositionAnalysis(j)
    \/ \E w \in Workers, j \in Jobs : Dequeue(w, j)
    \/ \E w \in Workers : HandlerReturns(w)
    \/ \E w \in Workers : HandlerRaises(w)
    \/ \E j \in Jobs : Promote(j)

QueueSpec ==
    /\ QueueInit
    /\ [][QueueNext]_vars
    /\ \A j \in Jobs :
        /\ WF_vars(\E w \in Workers : Dequeue(w, j))
        /\ WF_vars(Promote(j))

\* Searches awaited one after the other on one engine, as the ply loop
\* of analyzeGame does
SearchInit ==
    /\ PoolInit
    /\ GameLocals("idle", <<>>)
    /\ LifeIdle
    /\ ChunkIdle
    /\ StoreIdle
    /\ PgnIdle
    /\ ClassIdle
    /\ QueueIdle
    /\ ProtocolIdle

SearchNext ==
    \/ WaitForAnalysis
    \/ \E ch \in InfoChunks \cup BestmoveChunks : EngineChunk(ch)

SearchSpec == SearchInit /\ [][SearchNext]_vars

\* One analyzePosition call on its leased engine, for a position with
\* either side to move
ParseInit ==
    /\ PoolInit
    /\ GameLocals("idle", <<>>)
    /\ LifeIdle
    /\ ChunkIdle
    /\ StoreIdle
    /\ PgnIdle
    /\ ClassIdle
    /\ QueueIdle
    /\ SearchIdle
    /\ \E side \in {"w", "b"} : PositionLocals("start", side)

ParseNext ==
    \/ StartPosition
    \/ \E cp \in PosScores, m \in PosMoves : PositionInfo(cp, m)
    \/ PositionResult

ParseSpec == ParseInit /\ [][ParseNext]_vars

\* ------------------------------------------------------------- pool claims

Leased == {c \in Callers : held[c] # NoEngine}
Sleeping(c) == pc[c] \in {"pos_sleep", "game_sleep"}
\* the engines the pool owns whose process runs
Usable == {e \in Range(engines) : proc[e] = "alive"}

\* C1: under more concurrent callers than engines, no engine is held by
\* two callers or held while available, at most POOL_SIZE engines are
\* leased, and no call raises without having leased an engine: a caller
\* that finds the pool empty waits
C1_ExclusiveBoundedLease ==
    /\ \A c1, c2 \in Callers :
        (c1 # c2 /\ held[c1] # NoEngine) => held[c1] # held[c2]
    /\ \A c \in Callers : held[c] # NoEngine => held[c] \notin Range(enginePool)
    /\ Cardinality(Range(enginePool)) = Len(enginePool)
    /\ Cardinality(Leased) <= POOL_SIZE
    /\ exited.how = "raised" => exited.engine # NoEngine
    /\ \A c \in Callers : Sleeping(c) => held[c] = NoEngine

\* every engine is leased and one more caller waits for one
C1_Witness ==
    /\ Cardinality(Leased) = POOL_SIZE
    /\ \E c \in Callers : Sleeping(c)

\* C2: whenever analyzeGame returns or raises, the engine it leased is
\* back in the available pool and no lease of it remains
C2_GameAlwaysReleases ==
    exited.kind = "game" =>
        /\ exited.engine \in Range(enginePool)
        /\ \A c \in Callers : held[c] # exited.engine

\* C3: whenever analyzePosition returns or raises, the engine it leased
\* is back in the available pool and no lease of it remains
C3_PositionAlwaysReleases ==
    exited.kind = "position" =>
        /\ exited.engine \in Range(enginePool)
        /\ \A c \in Callers : held[c] # exited.engine

\* analyzePosition raised out of its try block and its engine is available
C3_Witness ==
    /\ exited.kind = "position"
    /\ exited.how = "raised"
    /\ exited.engine \in Range(enginePool)

\* C4: when the engine of an analysis in flight is killed, the pool
\* eventually has POOL_SIZE usable engines again and the caller is no
\* longer blocked
C4_KilledEngineReplaced ==
    \A c \in CrashCallers :
        (Waiting(c) /\ proc[held[c]] = "dead")
            ~> (Cardinality(Usable) = POOL_SIZE /\ ~Waiting(c))

\* C5: release never puts a dead engine into the available pool and
\* acquire never hands a dead engine to a caller
C5_DeadNeverPooledNorLeased ==
    [][ /\ \A e \in Engines :
            (e \notin Range(enginePool) /\ e \in Range(enginePool'))
                => proc'[e] # "dead"
        /\ \A c \in CrashCallers :
            (held[c] = NoEngine /\ held'[c] # NoEngine)
                => proc'[held'[c]] # "dead" ]_vars

\* C6: analyzePosition does not wait for a bestmove line forever
C6_PositionWaitEnds ==
    \A c \in CrashCallers : (pc[c] = "pos_wait") ~> (pc[c] # "pos_wait")

\* C7: every caller suspended in getEngine is eventually given an engine.
\* The claim's proviso, that every leased engine is eventually released,
\* holds in every behaviour of StarveSpec: its engines stay alive and
\* its fairness makes every search end, and analyzePosition releases
C7_EveryWaiterServed ==
    \A c \in Callers : Sleeping(c) ~> ~Sleeping(c)

C27_StartupWaitEnds == (initPc = "wait") ~> (initPc # "wait")

\* C30: a caller suspended in getEngine leaves it after a bounded time,
\* with an engine or with a timeout error, whatever happens to the
\* engines
C30_AcquireWaitEnds ==
    \A c \in CrashCallers :
        (pc[c] \in {"pos_sleep", "game_sleep"})
            ~> (pc[c] \notin {"pos_sleep", "game_sleep"})

\* C33: an engine that was spawned and has not printed readyok is in
\* neither list of the pool and no caller holds it, whenever callers
\* arrive
C33_AvailableOnlyWhenReady ==
    \A e \in Engines :
        proc[e] \in {"none", "starting"} =>
            /\ e \notin Range(engines)
            /\ e \notin Range(enginePool)
            /\ \A c \in Callers : held[c] # e

\* during initialisation an engine is starting, a caller holds an engine
\* that is ready and another caller polls the empty pool
C33_Witness ==
    /\ initPc = "wait"
    /\ \E e \in Engines : proc[e] = "starting"
    /\ \E c \in Callers : held[c] # NoEngine /\ proc[held[c]] = "alive"
    /\ \E c \in Callers : Sleeping(c)

\* C26: a session runs at most one search at a time: a search is in
\* flight exactly on the engines of the callers that await one, one
\* caller per engine, and never on an available engine, so no command is
\* written to an engine before its previous search was answered
C26_OneSearchPerSession ==
    /\ \A e \in Engines :
        /\ inflight[e] \in {0, 1}
        /\ inflight[e] = 1 =>
            /\ e \notin Range(enginePool)
            /\ Cardinality({c \in Callers : held[c] = e}) = 1
    /\ \A c \in Callers :
        /\ Waiting(c) => inflight[held[c]] = 1
        /\ (held[c] # NoEngine /\ ~Waiting(c)) => inflight[held[c]] = 0

\* every engine runs a search, one of them the second search of a ply
C26_Witness ==
    /\ \A e \in Engines : inflight[e] = 1
    /\ \E c \in Callers : pc[c] = "game_wait_after"

\* C28: onModuleDestroy kills every engine the pool owns, in enginePool
\* or held by a caller, and a call made when they are all dead leaves
\* processes, lists and callers as they are
C28_DestroyKillsAllOwned ==
    [][destroyed' # destroyed =>
        /\ \A e \in Range(engines') : proc'[e] = "dead"
        /\ (\A e \in Range(engines) : proc[e] = "dead")
            => UNCHANGED <<proc, engines, enginePool, initPc, pc, held, inflight>> ]_vars

\* onModuleDestroy returned twice on a complete pool with an engine in
\* enginePool and an engine held by a caller that awaits its search
C28_Witness ==
    /\ destroyed = 2
    /\ Len(engines) = POOL_SIZE
    /\ \A e \in Range(engines) : proc[e] = "dead"
    /\ enginePool # <<>>
    /\ \E c \in LifeCallers : Waiting(c)

\* C29: a call that awaits a search when its cancellation was requested
\* is interrupted: its next step ends the call and releases the engine,
\* it starts no further search
C29_CancelInterrupts ==
    [][\A c \in LifeCallers :
        (cancelRequested[c] /\ Waiting(c) /\ pc'[c] # pc[c])
            => (pc'[c] = "idle" /\ held'[c] = NoEngine) ]_vars

\* a position descriptor has six fields, the second names the side to
\* move
WellFormedFen(f) == Len(f) = 6 /\ f[2] \in {"w", "b"}

\* C31: a call of analyzePosition with a malformed descriptor holds no
\* engine and has no search written to one
C31_MalformedRejected ==
    \A c \in Callers :
        (FenOf(c) \in Fens /\ ~WellFormedFen(FenOf(c)))
            => ~(pc[c] = "pos_wait" /\ held[c] # NoEngine /\ inflight[held[c]] = 1)

\* ------------------------------------------------------------- game claims

Plies == 1 .. Len(analysis.moves)
\* the evaluations the searches before and after ply k resolved with
BestEval(k) == searchEvals[2 * k - 1]
AfterEval(k) == searchEvals[2 * k]

\* C8: for every recorded ply, centipawnLoss = max(0, E_best - E_actual),
\* E_best the evaluation of the search before the move and E_actual the
\* evaluation recorded for the move; so it is never negative
C8_LossIsClampedDifference ==
    \A k \in Plies :
        /\ analysis.moves[k].centipawnLoss >= 0
        /\ analysis.moves[k].centipawnLoss =
            Max(0, BestEval(k) - analysis.moves[k].evaluation)

\* a ply whose played move scored better than the engine's: the
\* difference is negative and the loss is 0
C8_Witness ==
    \E k \in Plies :
        /\ BestEval(k) - analysis.moves[k].evaluation < 0
        /\ analysis.moves[k].centipawnLoss = 0

\* C9: the evaluation recorded for a ply is the engine's evaluation of the
\* position after the move seen from the side that moved; the engine
\* reports it from the side to move there, the opponent, so it is the
\* negated score, for first-player and second-player plies alike
C9_ActualEvalFromMoversSide ==
    \A k \in Plies : analysis.moves[k].evaluation = -AfterEval(k)

\* at every ply the engine prefers the played move and its assessment of
\* the position is the same before and after it, each search reporting it
\* from the side to move
EngineAgrees ==
    /\ Len(searchEvals) = 2 * Len(moves)
    /\ \A k \in 1 .. Len(moves) :
        /\ analysis.moves[k].bestMove = moves[k]
        /\ AfterEval(k) = -BestEval(k)
        /\ k > 1 => BestEval(k) = AfterEval(k - 1)

\* C10: the game e4 e5 with an agreeing engine yields centipawnLoss 0 and
\* category best at both plies, averageCentipawnLoss 0 and gameQuality 100
C10_AgreedGameIsPerfect ==
    (gpc = "done" /\ moves = <<"e4", "e5">> /\ EngineAgrees) =>
        /\ \A k \in Plies :
            /\ analysis.moves[k].centipawnLoss = 0
            /\ analysis.moves[k].category = "best"
        /\ analysis.averageCentipawnLoss = Zero
        /\ analysis.gameQuality = Frac(100, 1)

\* the sum of the centipawnLoss of the records of a list
RECURSIVE SumLoss(_)
SumLoss(recs) ==
    IF recs = <<>> THEN 0 ELSE recs[1].centipawnLoss + SumLoss(Tail(recs))

Hundred == Frac(100, 1)

\* C13: the gameQuality of an analysed game lies in [0,100] and is
\* 100 - averageCentipawnLoss clamped to it: 0 from an average of 100 on,
\* 100 for an average of 0
C13_QualityIsClamped ==
    gpc = "done" =>
        LET avg == analysis.averageCentipawnLoss
            q == analysis.gameQuality
        IN  /\ FracLe(Zero, q) /\ FracLe(q, Hundred)
            /\ FracLe(Hundred, avg) => q = Zero
            /\ avg = Zero => q = Hundred
            /\ (FracLe(Zero, avg) /\ FracLe(avg, Hundred)) => q = FracSub(Hundred, avg)

\* a game whose average loss is 150 got quality 0
C13_Witness ==
    /\ gpc = "done"
    /\ analysis.averageCentipawnLoss = Frac(150, 1)
    /\ analysis.gameQuality = Zero

\* C14: after the last ply averageCentipawnLoss is the sum of the recorded
\* losses divided by the number of records, 0 without records; a game
\* without moves yields empty lists, average 0 and quality 100
C14_AverageIsSumOverCount ==
    gpc = "done" =>
        /\ analysis.averageCentipawnLoss =
            IF Len(analysis.moves) = 0 THEN Zero
            ELSE Frac(SumLoss(analysis.moves), Len(analysis.moves))
        /\ Len(moves) = 0 =>
            /\ analysis.moves = <<>>
            /\ analysis.blunders = <<>>
            /\ analysis.mistakes = <<>>
            /\ analysis.inaccuracies = <<>>
            /\ analysis.averageCentipawnLoss = Zero
            /\ analysis.gameQuality = Hundred

\* a game of two plies whose average loss is not a whole number
C14_Witness ==
    /\ gpc = "done"
    /\ Len(analysis.moves) = 2
    /\ analysis.averageCentipawnLoss.den = 2

IsBlunder(r) == r.category = "blunder"
IsMistake(r) == r.category = "mistake"
IsInaccuracy(r) == r.category = "inaccuracy"

\* C15: blunders, mistakes and inaccuracies are the records of moves with
\* that category, in game order; a move losing exactly 350 is a blunder,
\* is in blunders, and its 350 is in the sum the average is computed from
C15_BucketsAreFilteredViews ==
    /\ analysis.blunders = SelectSeq(analysis.moves, IsBlunder)
    /\ analysis.mistakes = SelectSeq(analysis.moves, IsMistake)
    /\ analysis.inaccuracies = SelectSeq(analysis.moves, IsInaccuracy)
    /\ totalCentipawnLoss = SumLoss(analysis.moves)
    /\ \A k \in Plies :
        analysis.moves[k].centipawnLoss = 350 =>
            /\ analysis.moves[k].category = "blunder"
            /\ analysis.moves[k] \in Range(analysis.blunders)

\* a move that lost exactly 350 was recorded, and so was a mistake
C15_Witness ==
    /\ \E k \in Plies :
        /\ analysis.moves[k].centipawnLoss = 350
        /\ analysis.moves[k] \in Range(analysis.blunders)
        /\ totalCentipawnLoss >= 350
    /\ analysis.mistakes # <<>>

\* C16: moveNumber increases by exactly one from each record to the next,
\* so no two records of a game share a moveNumber
C16_MoveNumberPerPly ==
    /\ \A k \in 1 .. (Len(analysis.moves) - 1) :
        analysis.moves[k + 1].moveNumber = analysis.moves[k].moveNumber + 1
    /\ \A j, k \in Plies :
        j # k => analysis.moves[j].moveNumber # analysis.moves[k].moveNumber

\* C32: while the first search of ply i runs, the position sent is that
\* of plies 0..i-1, while the second runs it is that of plies 0..i, in
\* both cases exactly the records of plies 0..i-1 are in analysis.moves
\* and two searches were awaited per earlier ply; records are in ply order
C32_PlyOrder ==
    /\ gpc = "wait_best" =>
        /\ position = SubSeq(moves, 1, i)
        /\ Len(analysis.moves) = i
        /\ Len(searchEvals) = 2 * i
    /\ gpc = "wait_after" =>
        /\ position = SubSeq(moves, 1, i + 1)
        /\ Len(analysis.moves) = i
        /\ Len(searchEvals) = 2 * i + 1
    /\ \A k \in 1 .. Len(analysis.moves) : analysis.moves[k].move = moves[k]

\* the second search of the second ply runs, the first ply is recorded
C32_Witness ==
    /\ gpc = "wait_after"
    /\ i = 1
    /\ Len(analysis.moves) = 1
    /\ Len(position) = 2

\* C36: parsePGN returns the moves that were played, one element per ply
\* in game order, so that analyzeGame, which makes one record per
\* element, makes the record of ply i from entry i
C36_OneEntryPerPly == parsed # NotParsed => parsed = played

\* ------------------------------------------------------------- categorizeMove claims

Categories == {"best", "good", "inaccuracy", "mistake", "blunder"}

\* C11: a non-negative loss gets exactly one category: blunder from 300,
\* mistake from 100 to 299, inaccuracy from 50 to 99, best up to 10, good
\* between 10 and 50
C11_ThresholdsFirstMatch ==
    category # "none" =>
        /\ category \in Categories
        /\ (category = "blunder") <=> (loss >= 300)
        /\ (category = "mistake") <=> (loss >= 100 /\ loss < 300)
        /\ (category = "inaccuracy") <=> (loss >= 50 /\ loss < 100)
        /\ (category = "best") <=> (loss <= 10)
        /\ (category = "good") <=> (loss > 10 /\ loss < 50)

\* a loss that passes the first two tests and is caught by the third
C11_Witness == loss = 75 /\ category = "inaccuracy"

\* C12 as stated: 10, 49, 50, 99, 100, 299, 300 map to best, good,
\* inaccuracy, mistake, mistake, blunder, blunder
C12_BoundariesAsStated ==
    category # "none" =>
        /\ loss = 10 => category = "best"
        /\ loss = 49 => category = "good"
        /\ loss = 50 => category = "inaccuracy"
        /\ loss = 99 => category = "mistake"
        /\ loss = 100 => category = "mistake"
        /\ loss = 299 => category = "blunder"
        /\ loss = 300 => category = "blunder"

\* C12 amended: 99 is still an inaccuracy and 299 still a mistake, the
\* last values below the bounds 100 and 300
C12_BoundariesExact ==
    category # "none" =>
        /\ loss = 10 => category = "best"
        /\ loss = 49 => category = "good"
        /\ loss = 50 => category = "inaccuracy"
        /\ loss = 99 => category = "inaccuracy"
        /\ loss = 100 => category = "mistake"
        /\ loss = 299 => category = "mistake"
        /\ loss = 300 => category = "blunder"

\* the loss just below the bound of mistake has been categorized
C12_Witness == loss = 99 /\ category = "inaccuracy"

\* ------------------------------------------------------------- queue claims

Final(j) == jobs[j].state \in {"completed", "failed"}
Running(j) == {w \in Workers : worker[w] = j}
\* the attempt limits the submitters configure
AttemptLimit(j) == IF jobs[j].kind = "game" THEN 3 ELSE 1

\* C17: when a job is dequeued, it is not a game-analysis job taken while
\* a hint job was waiting
C17_HintDequeuedFirst ==
    (taken.job # NoJob /\ jobs[taken.job].kind = "game") =>
        \A k \in taken.left : jobs[k].kind # "position"

\* C18: the job dequeued has the lowest priority value of the jobs that
\* were waiting, and was submitted before the waiting jobs of the same
\* priority value
C18_LowestPriorityThenFifo ==
    taken.job # NoJob =>
        \A k \in taken.left :
            \/ jobs[taken.job].priority < jobs[k].priority
            \/ /\ jobs[taken.job].priority = jobs[k].priority
               /\ taken.job < k

\* a job was dequeued ahead of an earlier one of higher priority value
\* and of a later one of the same priority value
C18_Witness ==
    /\ taken.job # NoJob
    /\ \E k \in taken.left :
        k < taken.job /\ jobs[taken.job].priority < jobs[k].priority
    /\ \E k \in taken.left :
        k > taken.job /\ jobs[taken.job].priority = jobs[k].priority

\* C19: a permanently failed job was executed exactly as many times as
\* its attempt limit, 3 for a game job and 1 for a hint job, every time
\* failing; no job is executed more often than its limit; a completed or
\* failed job is never executed again
C19_AttemptsThenFailed ==
    /\ [](\A j \in Jobs :
            /\ runs[j] <= AttemptLimit(j)
            /\ jobs[j].state = "failed" =>
                /\ runs[j] = AttemptLimit(j)
                /\ jobs[j].attemptsMade = AttemptLimit(j)
            /\ jobs[j].state = "completed" =>
                jobs[j].attemptsMade = runs[j] - 1
            /\ Final(j) => Running(j) = {})
    /\ [][\A j \in Jobs : Final(j) => runs'[j] = runs[j] /\ jobs'[j] = jobs[j]]_vars

\* a game job failed after three executions and a hint job after one
C19_Witness ==
    /\ \E j \in Jobs :
        jobs[j].kind = "game" /\ jobs[j].state = "failed" /\ runs[j] = 3
    /\ \E j \in Jobs :
        jobs[j].kind = "position" /\ jobs[j].state = "failed" /\ runs[j] = 1

C37_RetryNotDoomed ==
    /\ analysisRows <= 1
    /\ ~(hpc = "raised" /\ error = "Unique constraint failed")

\* C38: when the handler returns, the updates of the attempt addressed
\* one Move row per record of analysis.moves, no row twice
C38_OneRowPerPly ==
    hpc = "returned" =>
        /\ Len(updated) = Len(result)
        /\ \A a, b \in 1 .. Len(updated) : a # b => updated[a] # updated[b]

\* C39: for a gameId without a game the handler raises 'Game not found'
\* and nothing else: no caller of the pool holds or awaits an engine, no
\* search is in flight, and there is no Analysis row, no Move row and no
\* analysis result; the job never completes
C39_GameNotFound ==
    ~gameRow.exists =>
        /\ hpc \in {"idle", "raised"}
        /\ hpc = "raised" => error = "Game not found"
        /\ \A c \in Callers : pc[c] = "idle" /\ held[c] = NoEngine
        /\ \A e \in Engines : inflight[e] = 0
        /\ enginePool = engines
        /\ analysisRows = 0
        /\ moveRows = SavedRows(0)
        /\ result = <<>>
        /\ jobs[StoreJob].state # "completed"

\* the job has failed for good after three attempts at a gameId without
\* a game, with all engines of the pool available
C39_Witness ==
    /\ ~gameRow.exists
    /\ error = "Game not found"
    /\ jobs[StoreJob].state = "failed"
    /\ jobs[StoreJob].attemptsMade = 3
    /\ Len(enginePool) = POOL_SIZE

\* ------------------------------------------------------------- search claims

\* C21: a search resolves exactly once and only on its bestmove line: as
\* many searches have resolved as the engine printed bestmove lines, a
\* handler is attached exactly while the engine searches, and a result
\* once delivered is not changed by later output
C21_ResolvesOnceOnBestmove ==
    /\ [](Len(searchEvals) = emitted /\ (listening <=> searching))
    /\ [][SubSeq(searchEvals', 1, Len(searchEvals)) = searchEvals]_vars

\* two searches resolved, the second after score lines of its own
C21_Witness ==
    /\ emitted = 2
    /\ Len(searchEvals) = 2
    /\ searchLog[2].scored
    /\ ~listening

\* C22: a search whose engine printed bestmove without a score line
\* resolves with the last score known before it, or with 0 if the
\* engine never printed one
C22_DefaultsToLastKnownScore ==
    \A k \in 1 .. Len(searchLog) :
        ~searchLog[k].scored =>
            searchEvals[k] =
                IF searchLog[k].known.any THEN searchLog[k].known.cp ELSE 0

\* C35: between searches, the evaluation the last search resolved with
\* is the score of the last score line the engine printed in it
C35_LastScoreLine ==
    (~listening /\ Len(searchLog) > 0 /\ searchLog[Len(searchLog)].scored)
        => searchEvals[Len(searchEvals)] = lastScore.cp

\* the output cut after every line
RECURSIVE ByLines(_, _)
ByLines(h, s) ==
    IF s = <<>> THEN h
    ELSE LET n == IF \E k \in 1 .. Len(s) : s[k] = "\n"
                  THEN CHOOSE k \in 1 .. Len(s) :
                        s[k] = "\n" /\ \A j \in 1 .. (k - 1) : s[j] # "\n"
                  ELSE Len(s)
         IN  ByLines(IF h.resolved THEN h ELSE dataHandler(h, SubSeq(s, 1, n)),
                     SubSeq(s, n + 1, Len(s)))

\* C34: when all output of a search has arrived, the search has resolved
\* with the evaluation and best move it resolves with when every line
\* arrives as a chunk of its own, however the output was cut
C34_ChunkingIndependent ==
    fedTo = Len(stream) => handler = ByLines(NewHandler, stream)

\* ------------------------------------------------------------- analyzePosition claims

\* the candidate lines of rank r the engine reported, in order
OfRank(ls, r) == SelectSeq(ls, LAMBDA ln : ln.multipv = r)
ReportedRanks(ls) == {r \in 1 .. MultiPV : OfRank(ls, r) # <<>>}
\* the most recent candidate line of rank r
Latest(ls, r) == OfRank(ls, r)[Len(OfRank(ls, r))]

\* C23: bestMoves holds one entry per reported rank, in rank order, at
\* most MultiPV of them, each the most recent line reported for its rank
C23_BestMovesTopK ==
    ppc = "done" =>
        /\ Len(posAnalysis.bestMoves) = Cardinality(ReportedRanks(lines))
        /\ Len(posAnalysis.bestMoves) <= MultiPV
        /\ \A r \in ReportedRanks(lines) :
            /\ posAnalysis.bestMoves[r].move = Latest(lines, r).move
            /\ posAnalysis.bestMoves[r].evaluation = Pawns(Latest(lines, r).cp)

\* C24: the evaluation is the score of the most recent top-ranked line in
\* pawns, negated when the second player is to move in the position
C24_EvaluationPerspectiveStable ==
    (ppc = "done" /\ 1 \in ReportedRanks(lines)) =>
        posAnalysis.evaluation =
            Pawns((IF fenSide = "b" THEN -1 ELSE 1) * Latest(lines, 1).cp)

====
